---- MODULE Spec2Model ----
(***************************************************************************)
(* Callable specialization and call scoping of loopy                       *)
(* (loopy/kernel/function_interface.py).                                   *)
(*                                                                         *)
(* Conventions of the model                                                *)
(*   - a Python str that names a function is a sequence of one-character   *)
(*     strings (next_indexed_name works on its characters); the name of a  *)
(*     subkernel argument is an atomic string;                             *)
(*   - an optional value is a sequence of length 0 (None) or 1;            *)
(*   - a dict keyed by argument ids is a record [ids, kws]: ids is the     *)
(*     part keyed by int, kws the part keyed by str;                       *)
(*   - a call that returns or raises is a record [err, val]: err is        *)
(*     "none" and val = <<v>> on return, err names the exception and       *)
(*     val = <<>> on raise.                                                *)
(***************************************************************************)
EXTENDS Integers, Sequences, FiniteSets, TLC

VARIABLES
    name_in, name_out,          \* next_indexed_name: argument, result
    npc,
    t_self,                     \* with_types: the Callable it is called on
    t_map, t_target,            \* with_types: arg_id_to_dtype, target
    t_res,                      \* what the first with_types returned or raised
    t_map2, t_res2,             \* the second with_types, on the result of the first
    tpc,
    d_self,                     \* shape specialization: the Callable
    d_items,                    \* arg_id_to_descr, as its items in dict order
    d_op, d_res,                \* the method called and what it returned
    dpc,
    knl,                        \* the scoping pass: the kernel it is given
    calls_to_callables,         \* pymbolic_calls_to_knl_callables
    scoped_names_to_functions,
    scoped_functions_to_names,
    pymbolic_calls_to_new_names,
    r_res,                      \* the kernel the pass returns, or what it raises
    rpc,
    e_self, e_insn, e_target,   \* emit_call: the Callable, insn, target
    e_res,                      \* what emit_call returned or raised
    epc,
    p_target,                   \* the pipeline: the target of the program
    p_dtypes,                   \* the dtype of the argument of each call
    p_resolved,                 \* the Callable each call is resolved to so far
    p_emitted                   \* what emit_call gave for each call site

nameVars == <<name_in, name_out, npc>>
typeVars == <<t_self, t_map, t_target, t_res, t_map2, t_res2, tpc>>
descrVars == <<d_self, d_items, d_op, d_res, dpc>>
passVars == <<knl, calls_to_callables, scoped_names_to_functions,
              scoped_functions_to_names, pymbolic_calls_to_new_names,
              r_res, rpc>>
emitVars == <<e_self, e_insn, e_target, e_res, epc>>
pipeVars == <<p_target, p_dtypes, p_resolved, p_emitted>>
vars == <<nameVars, typeVars, descrVars, passVars, emitVars, pipeVars>>

\* the variables of a part of the model that a specification does not use
IdleName ==
    /\ name_in = <<>>
    /\ name_out = <<>>
    /\ npc = "idle"

IdleTypes ==
    /\ t_self = <<>>
    /\ t_map = <<>>
    /\ t_target = "CTarget"
    /\ t_res = <<>>
    /\ t_map2 = <<>>
    /\ t_res2 = <<>>
    /\ tpc = "idle"

IdleDescr ==
    /\ d_self = <<>>
    /\ d_items = <<>>
    /\ d_op = "none"
    /\ d_res = <<>>
    /\ dpc = "idle"

IdlePass ==
    /\ knl = <<>>
    /\ calls_to_callables = <<>>
    /\ scoped_names_to_functions = <<>>
    /\ scoped_functions_to_names = <<>>
    /\ pymbolic_calls_to_new_names = <<>>
    /\ r_res = <<>>
    /\ rpc = "idle"

IdleEmit ==
    /\ e_self = <<>>
    /\ e_insn = <<>>
    /\ e_target = "CTarget"
    /\ e_res = <<>>
    /\ epc = "idle"

IdlePipe ==
    /\ p_target = "CTarget"
    /\ p_dtypes = <<>>
    /\ p_resolved = <<>>
    /\ p_emitted = <<>>

None == <<>>
Some(v) == <<v>>
Ok(v) == [err |-> "none", val |-> <<v>>]
Raise(e) == [err |-> e, val |-> <<>>]

(***************************************************************************)
(* Bounds                                                                  *)
(***************************************************************************)
MaxNameLen == 4
\* arguments of a subkernel that is type-specialized twice
MaxTypedArgs == 1
\* arguments of a subkernel that is shape-specialized
MaxDescrArgs == 2
\* items of the arg_id_to_descr handed to shape specialization
MaxDescrs == 2
\* arguments of a subkernel that is type-specialized once
MaxSubkernelArgs == 2
\* arguments of a subkernel whose call is emitted
MaxEmitArgs == 3
\* positional arguments, and assignees, of an emitted call
MaxCallArgs == 3
\* instructions of the kernel the scoping pass is given
MaxInsns == 2

(***************************************************************************)
(* Python str, int() and "{num}".format                                    *)
(***************************************************************************)
Digits == <<"0", "1", "2", "3", "4", "5", "6", "7", "8", "9">>

IsDigit(c) == \E d \in 1..10 : Digits[d] = c

DigitVal(c) == (CHOOSE d \in 1..10 : Digits[d] = c) - 1

RECURSIVE int(_)
int(s) == IF s = <<>> THEN 0
          ELSE 10 * int(SubSeq(s, 1, Len(s) - 1)) + DigitVal(s[Len(s)])

RECURSIVE format_int(_)
format_int(n) == IF n < 10 THEN <<Digits[n + 1]>>
                 ELSE format_int(n \div 10) \o <<Digits[(n % 10) + 1]>>

(* the characters identifiers are drawn from: a letter, the separator and  *)
(* two digits                                                              *)
NameChars == {"f", "_", "0", "9"}

IsSpace(c) == c = " "

NamesUpTo(n) == UNION {[1..k -> NameChars] : k \in 1..n}

(***************************************************************************)
(* next_indexed_name                                                       *)
(***************************************************************************)
\* the regular expression ^(?P<alpha>\S+?)_(?P<num>\d+?)$ matches with the
\* group alpha of length k
func_name_matches(name, k) ==
    /\ k >= 1
    /\ k + 2 <= Len(name)
    /\ \A i \in 1..k : ~IsSpace(name[i])
    /\ name[k + 1] = "_"
    /\ \A i \in (k + 2)..Len(name) : IsDigit(name[i])

\* re.match: the lazy group alpha takes the shortest length that matches
func_name_match(name) ==
    IF \E k \in 1..Len(name) : func_name_matches(name, k)
    THEN LET k == CHOOSE k \in 1..Len(name) :
                      /\ func_name_matches(name, k)
                      /\ \A j \in 1..(k - 1) : ~func_name_matches(name, j)
         IN Some([alpha |-> SubSeq(name, 1, k),
                  num |-> SubSeq(name, k + 2, Len(name))])
    ELSE None

next_indexed_name_noinc(name) ==
    LET match == func_name_match(name)
    IN IF match = None
       THEN name \o <<"_", "0">>
       ELSE match[1].alpha \o <<"_">> \o format_int(int(match[1].num))

next_indexed_name(name) ==
    LET match == func_name_match(name)
    IN IF match = None
       THEN IF name[Len(name)] = "_"
            THEN name \o <<"0">>
            ELSE name \o <<"_", "0">>
       ELSE match[1].alpha \o <<"_">> \o format_int(int(match[1].num) + 1)

(***************************************************************************)
(* dtypes                                                                  *)
(***************************************************************************)
\* numpy dtypes, by name
NumpyDtypes == {"int32", "uint32", "int64", "float32", "float64",
                "complex64", "complex128"}

\* numpy.dtype.kind
kind(dtype) ==
    CASE dtype \in {"int32", "int64"} -> "i"
      [] dtype = "uint32" -> "u"
      [] dtype \in {"float32", "float64"} -> "f"
      [] OTHER -> "c"

\* np.dtype(x): a dtype is itself, the scalar type np.float32 becomes the
\* dtype float32
np_dtype(x) == IF x = "np.float32" THEN "float32" ELSE x

\* loopy.types.NumpyType and its attribute numpy_dtype
NumpyType(dtype) == [dtype |-> np_dtype(dtype)]
numpy_dtype(t) == t.dtype

(***************************************************************************)
(* dicts keyed by argument id                                              *)
(***************************************************************************)
EmptyFcn == [x \in {} |-> x]
EmptyDict == [ids |-> EmptyFcn, kws |-> EmptyFcn]
IdDict(f) == [ids |-> f, kws |-> EmptyFcn]

\* bool(d) of a dict
Truthy(d) == DOMAIN d.ids # {} \/ DOMAIN d.kws # {}

(***************************************************************************)
(* function names                                                          *)
(***************************************************************************)
UnaryNames ==
    { <<"a","b","s">>, <<"a","c","o","s">>, <<"a","s","i","n">>,
      <<"a","t","a","n">>, <<"c","o","s">>, <<"c","o","s","h">>,
      <<"s","i","n">>, <<"s","i","n","h">>, <<"t","a","n","h">>,
      <<"e","x","p">>, <<"l","o","g">>, <<"l","o","g","1","0">>,
      <<"s","q","r","t">>, <<"c","e","i","l">>, <<"f","l","o","o","r">>,
      <<"t","a","n">> }

BinaryNames == { <<"m","a","x">>, <<"m","i","n">> }

(***************************************************************************)
(* c_with_types and the with_types of the targets that extend C            *)
(***************************************************************************)
\* error kinds: the LoopyError raised is named by what it reports
ArityError == "ArityError"
UnsupportedDtypeError == "UnsupportedDtypeError"
DoubleSpecializationError == "DoubleSpecializationError"
UnresolvedFunctionError == "UnresolvedFunctionError"
MissingArgTypeError == "MissingArgTypeError"

\* the unary rule without the cast of integers to float32
c_with_types_nocast(name, arg_id_to_dtype) ==
    IF name \in UnaryNames /\ 0 \in DOMAIN arg_id_to_dtype.ids
    THEN Ok(Some(IdDict([id \in {-1, 0} |->
                 NumpyType(numpy_dtype(arg_id_to_dtype.ids[0]))])))
    ELSE Ok(None)

\* returns Some(new arg_id_to_dtype), or None when name is no function of C;
\* the keys of arg_id_to_dtype are the int ids of a scalar call
c_with_types(name, arg_id_to_dtype) ==
    IF name \in UnaryNames
    THEN IF \E id \in DOMAIN arg_id_to_dtype.ids : ~(-1 <= id /\ id <= 0)
         THEN Raise(ArityError)
         ELSE IF 0 \notin DOMAIN arg_id_to_dtype.ids
         THEN Raise("KeyError")
         ELSE LET dtype == numpy_dtype(arg_id_to_dtype.ids[0])
              IN IF kind(dtype) = "f"
                 THEN Ok(Some(IdDict([id \in {-1, 0} |-> NumpyType(dtype)])))
                 ELSE IF kind(dtype) \in {"u", "i"}
                 THEN Ok(Some(IdDict([id \in {-1, 0} |->
                                         NumpyType("np.float32")])))
                 ELSE Raise(UnsupportedDtypeError)
    ELSE IF name \in BinaryNames
    THEN IF \E id \in DOMAIN arg_id_to_dtype.ids : ~(-1 <= id /\ id <= 1)
         THEN Raise(ArityError)
         \* [dtype.numpy_dtype for dtype in arg_id_to_dtype] iterates over
         \* the keys of the dict: an int has no attribute numpy_dtype; with
         \* no key at all find_common_type([], []) is None, which has no
         \* attribute kind
         ELSE Raise("AttributeError")
    ELSE Ok(None)

opencl_with_types(name, arg_id_to_dtype) == c_with_types(name, arg_id_to_dtype)

pyopencl_with_types(name, arg_id_to_dtype) ==
    opencl_with_types(name, arg_id_to_dtype)

cuda_with_types(name, arg_id_to_dtype) == c_with_types(name, arg_id_to_dtype)

(***************************************************************************)
(* targets                                                                 *)
(***************************************************************************)
Targets == {"CTarget", "OpenCLTarget", "PyOpenCLTarget", "CudaTarget"}

\* the classes a target is an instance of: every family extends one base
TargetClasses(target) ==
    CASE target = "CTarget" -> {"CTarget"}
      [] target = "OpenCLTarget" -> {"OpenCLTarget", "CTarget"}
      [] target = "PyOpenCLTarget" ->
             {"PyOpenCLTarget", "OpenCLTarget", "CTarget"}
      [] target = "CudaTarget" -> {"CudaTarget", "CTarget"}
      [] OTHER -> {}

isinstance(target, cls) == cls \in TargetClasses(target)

\* target.get_device_ast_builder().function_identifiers()
function_identifiers(target) == UnaryNames \cup BinaryNames

(***************************************************************************)
(* subkernels                                                              *)
(*   [name, args, read, written]: args is the sequence of argument         *)
(*   declarations [name, dtype, shape, dim_tags]; read and written are     *)
(*   get_read_variables() and get_written_variables() of the body          *)
(***************************************************************************)
ArgNamesOf(kernel) == {kernel.args[i].name : i \in 1..Len(kernel.args)}

\* the id get_kw_pos_association gives the i-th argument
arg_id(kernel, i) ==
    IF kernel.args[i].name \in kernel.written
    THEN -1 - Cardinality({j \in 1..(i - 1) :
                              kernel.args[j].name \in kernel.written})
    ELSE Cardinality({j \in 1..(i - 1) :
                         kernel.args[j].name \notin kernel.written})

get_kw_pos_association(kernel) ==
    [kw_to_pos |-> [kw \in ArgNamesOf(kernel) |->
                       arg_id(kernel, CHOOSE i \in 1..Len(kernel.args) :
                                          kernel.args[i].name = kw)],
     pos_to_kw |-> [pos \in {arg_id(kernel, i) : i \in 1..Len(kernel.args)} |->
                       kernel.args[CHOOSE i \in 1..Len(kernel.args) :
                                       arg_id(kernel, i) = pos].name]]

\* loopy.type_inference.infer_unknown_types(kernel, expect_completion=True):
\* an argument without dtype that the body writes gets its dtype from the
\* arguments whose dtype is known; inference fails when a dtype stays unknown
infer_unknown_types(kernel) ==
    LET known == {i \in 1..Len(kernel.args) : kernel.args[i].dtype # None}
        unknown == {i \in 1..Len(kernel.args) : kernel.args[i].dtype = None}
    IN IF unknown = {}
       THEN Ok(kernel)
       ELSE IF known = {} \/ \E i \in unknown :
                                  kernel.args[i].name \notin kernel.written
       THEN Raise("TypeInferenceFailure")
       ELSE LET first == CHOOSE i \in known : \A j \in known : i <= j
            IN Ok([kernel EXCEPT !.args =
                      [i \in 1..Len(kernel.args) |->
                          IF i \in unknown
                          THEN [kernel.args[i] EXCEPT
                                    !.dtype = kernel.args[first].dtype]
                          ELSE kernel.args[i]]])

(***************************************************************************)
(* InKernelCallable                                                        *)
(*   [name, subkernel, arg_id_to_dtype, arg_id_to_descr], the last three   *)
(*   optional                                                              *)
(***************************************************************************)
InKernelCallable(name, subkernel) ==
    [name |-> name, subkernel |-> subkernel,
     arg_id_to_dtype |-> None, arg_id_to_descr |-> None]

\* the dispatch of with_types on the class of the target
with_types_scalar(self, arg_id_to_dtype, target) ==
    IF isinstance(target, "CTarget")
    THEN c_with_types(self.name, arg_id_to_dtype)
    ELSE IF isinstance(target, "OpenCLTarget")
    THEN opencl_with_types(self.name, arg_id_to_dtype)
    ELSE IF isinstance(target, "PyOpenCLTarget")
    THEN pyopencl_with_types(self.name, arg_id_to_dtype)
    ELSE IF isinstance(target, "CudaTarget")
    THEN cuda_with_types(self.name, arg_id_to_dtype)
    ELSE Raise("NotImplementedError")

\* the dtype with_types gives the i-th argument of the subkernel: Some(dtype)
\* when supplied by name or else by id, None when left as declared
supplied_dtype(subkernel, arg_id_to_dtype, i) ==
    LET kw == subkernel.args[i].name
        pos == get_kw_pos_association(subkernel).kw_to_pos[kw]
    IN IF kw \in DOMAIN arg_id_to_dtype.kws
       THEN Some(arg_id_to_dtype.kws[kw])
       ELSE IF pos \in DOMAIN arg_id_to_dtype.ids
       THEN Some(arg_id_to_dtype.ids[pos])
       ELSE None

\* an arg_id_to_dtype that numbers the arguments as they are declared,
\* whether written or not
kernel_arg_id_to_dtype_declared_order(kernel) ==
    [ids |-> [pos \in 0..(Len(kernel.args) - 1) |->
                 kernel.args[pos + 1].dtype[1]],
     kws |-> [kw \in ArgNamesOf(kernel) |->
                 kernel.args[CHOOSE i \in 1..Len(kernel.args) :
                                 kernel.args[i].name = kw].dtype[1]]]

\* the arg_id_to_dtype with_types builds from the specialized subkernel
kernel_arg_id_to_dtype(kernel) ==
    [ids |-> [pos \in {arg_id(kernel, i) : i \in 1..Len(kernel.args)} |->
                 kernel.args[CHOOSE i \in 1..Len(kernel.args) :
                                 arg_id(kernel, i) = pos].dtype[1]],
     kws |-> [kw \in ArgNamesOf(kernel) |->
                 kernel.args[CHOOSE i \in 1..Len(kernel.args) :
                                 kernel.args[i].name = kw].dtype[1]]]

with_types_subkernel(self, arg_id_to_dtype) ==
    LET subkernel == self.subkernel[1]
        n == Len(subkernel.args)
    IN IF \E i \in 1..n :
            /\ supplied_dtype(subkernel, arg_id_to_dtype, i) = None
            /\ subkernel.args[i].name \in subkernel.read
       THEN Raise(MissingArgTypeError)
       ELSE LET new_args ==
                    [i \in 1..n |->
                        IF supplied_dtype(subkernel, arg_id_to_dtype, i) = None
                        THEN subkernel.args[i]
                        ELSE [subkernel.args[i] EXCEPT !.dtype =
                                 supplied_dtype(subkernel, arg_id_to_dtype, i)]]
                inferred == infer_unknown_types(
                                [subkernel EXCEPT !.args = new_args])
            IN IF inferred.err # "none"
               THEN Raise(inferred.err)
               ELSE Ok([self EXCEPT
                          !.subkernel = Some(inferred.val[1]),
                          !.arg_id_to_dtype =
                              Some(kernel_arg_id_to_dtype(inferred.val[1]))])

\* with_types that accepts any mapping for a specialized Callable
with_types_norecheck(self, arg_id_to_dtype, target) ==
    IF self.arg_id_to_dtype # None
    THEN Ok(self)
    ELSE LET new == c_with_types(self.name, arg_id_to_dtype)
         IN IF new.err # "none" THEN Raise(new.err)
            ELSE IF new.val[1] # None
            THEN Ok([self EXCEPT !.arg_id_to_dtype = new.val[1]])
            ELSE IF self.subkernel = None THEN Raise(UnresolvedFunctionError)
            ELSE with_types_subkernel(self, arg_id_to_dtype)

with_types(self, arg_id_to_dtype, target) ==
    IF self.arg_id_to_dtype # None /\ Truthy(self.arg_id_to_dtype[1])
    THEN IF self.arg_id_to_dtype[1] = arg_id_to_dtype
         THEN Ok(self)
         ELSE Raise(DoubleSpecializationError)
    ELSE LET new == IF self.name \in function_identifiers(target)
                    THEN with_types_scalar(self, arg_id_to_dtype, target)
                    ELSE Ok(None)
         IN IF new.err # "none"
            THEN Raise(new.err)
            ELSE IF new.val[1] # None
            THEN Ok([self EXCEPT !.arg_id_to_dtype = new.val[1]])
            ELSE IF self.subkernel = None
            THEN Raise(UnresolvedFunctionError)
            ELSE with_types_subkernel(self, arg_id_to_dtype)

(***************************************************************************)
(* Argument descriptors                                                    *)
(***************************************************************************)
ValueArgDescriptor ==
    [cls |-> "ValueArgDescriptor",
     mem_scope |-> None, shape |-> None, dim_tags |-> None]

\* ArrayArgDescriptor.__init__ hands shape=None to the record, whatever the
\* tuple it was given
ArrayArgDescriptor(shape, mem_scope, dim_tags) ==
    [cls |-> "ArrayArgDescriptor",
     mem_scope |-> mem_scope, shape |-> None, dim_tags |-> dim_tags]

(***************************************************************************)
(* An arg_id_to_descr in the order of its items: a sequence of             *)
(* [key, descr], key = [kind, id, kw] being the int id (kind "id") or the  *)
(* str kw (kind "kw")                                                      *)
(***************************************************************************)
IdKey(id) == [kind |-> "id", id |-> id, kw |-> ""]
KwKey(kw) == [kind |-> "kw", id |-> 0, kw |-> kw]

\* the dict that holds the items
DictOfItems(items) ==
    LET at(key) == items[CHOOSE k \in 1..Len(items) : items[k].key = key].descr
    IN [ids |-> [id \in {items[k].key.id : k \in {j \in 1..Len(items) :
                                         items[j].key.kind = "id"}} |->
                    at(IdKey(id))],
        kws |-> [kw \in {items[k].key.kw : k \in {j \in 1..Len(items) :
                                         items[j].key.kind = "kw"}} |->
                    at(KwKey(kw))]]

(***************************************************************************)
(* InKernelCallable.with_descrs                                            *)
(***************************************************************************)
DimensionMismatchError == "DimensionMismatchError"

\* the place in a Python list of length n that the int id indexes, 0 when
\* it is out of range
list_index(n, id) ==
    IF 0 <= id /\ id < n THEN id + 1
    ELSE IF id < 0 /\ -n <= id THEN n + id + 1
    ELSE 0

\* the argument of place i in the declarations is the one with id arg_id
bijection_index(kernel, id) ==
    IF \E i \in 1..Len(kernel.args) : arg_id(kernel, i) = id
    THEN CHOOSE i \in 1..Len(kernel.args) : arg_id(kernel, i) = id
    ELSE 0

\* the loop of with_descrs over the items from the k-th on
RECURSIVE overlay_descrs(_, _, _, _)
overlay_descrs(new_args, kw_to_pos, items, k) ==
    IF k > Len(items)
    THEN Ok(new_args)
    ELSE LET key == items[k].key
             descr == items[k].descr
         IN IF key.kind = "kw" /\ key.kw \notin DOMAIN kw_to_pos
            THEN Raise("KeyError")
            ELSE LET id == IF key.kind = "kw" THEN kw_to_pos[key.kw]
                           ELSE key.id
                     i == list_index(Len(new_args), id)
                 IN IF i = 0
                    THEN Raise("IndexError")
                    ELSE overlay_descrs(
                            [new_args EXCEPT
                                ![i] = [@ EXCEPT !.shape = descr.shape,
                                                 !.dim_tags = descr.dim_tags]],
                            kw_to_pos, items, k + 1)

with_descrs(self, items) ==
    IF self.subkernel = None
    THEN LET arg_id_to_descr == DictOfItems(items)
         IN Ok([self EXCEPT !.arg_id_to_descr =
                   Some([arg_id_to_descr EXCEPT !.ids =
                            [id \in DOMAIN arg_id_to_descr.ids \cup {-1} |->
                                IF id = -1 THEN ValueArgDescriptor
                                ELSE arg_id_to_descr.ids[id]]])])
    ELSE LET subkernel == self.subkernel[1]
             new_args == overlay_descrs(
                             subkernel.args,
                             get_kw_pos_association(subkernel).kw_to_pos,
                             items, 1)
         IN IF new_args.err # "none"
            THEN Raise(new_args.err)
            ELSE Ok([self EXCEPT
                       !.subkernel = Some([subkernel EXCEPT
                                              !.args = new_args.val[1]]),
                       !.arg_id_to_descr = Some(DictOfItems(items))])

(***************************************************************************)
(* CallableKernel.with_descriptors                                         *)
(***************************************************************************)
\* the check of the dimensions, over the items from the k-th on: "none" or
\* the exception raised
RECURSIVE check_dimensions(_, _, _)
check_dimensions(subkernel, items, k) ==
    IF k > Len(items)
    THEN "none"
    ELSE LET key == items[k].key
         IN IF items[k].descr.dim_tags = None
            THEN "TypeError"            \* len(None)
            ELSE IF key.kind # "kw" \/ key.kw \notin ArgNamesOf(subkernel)
            THEN "KeyError"             \* subkernel.arg_dict[id]
            ELSE LET arg == subkernel.args[
                                CHOOSE i \in 1..Len(subkernel.args) :
                                    subkernel.args[i].name = key.kw]
                 IN IF arg.shape = None
                    THEN "TypeError"    \* len(None)
                    ELSE IF Len(items[k].descr.dim_tags[1]) # Len(arg.shape[1])
                    THEN DimensionMismatchError
                    ELSE check_dimensions(subkernel, items, k + 1)

\* returns the pair <<Callable, new arg_id_to_descr>>
with_descriptors(self, items) ==
    LET subkernel == self.subkernel[1]
        checked == check_dimensions(subkernel, items, 1)
    IN IF checked # "none"
       THEN Raise(checked)
       ELSE IF \E i \in 1..Len(subkernel.args) :
                  subkernel.args[i].name \in DOMAIN DictOfItems(items).kws
       THEN Raise("TypeError")          \* new_args.copy(...) of a list
       ELSE IF \E i \in 1..Len(subkernel.args) :
                  subkernel.args[i].dim_tags = None
       THEN Raise("AssertionError")     \* ArrayArgDescriptor(None, "GLOBAL")
       ELSE Ok(<<InKernelCallable(self.name,
                     Some([subkernel EXCEPT !.name = self.name])),
                 [ids |-> EmptyFcn,
                  kws |-> [kw \in ArgNamesOf(subkernel) |->
                              ArrayArgDescriptor(
                                  subkernel.args[
                                      CHOOSE i \in 1..Len(subkernel.args) :
                                          subkernel.args[i].name = kw].dim_tags,
                                  Some("GLOBAL"), None)]]>>)

(***************************************************************************)
(* Expressions and instructions                                            *)
(*   an expression is [type, name, function, parameters, kw_parameters]:   *)
(*   a Variable has a name; a Call or CallWithKwargs has the function      *)
(*   [scoped, name] it calls (scoped: a ScopedFunction) and its arguments  *)
(*   an instruction is [cls, expression, assignees]                        *)
(***************************************************************************)
NoFunction == [scoped |-> FALSE, name |-> <<>>]

Variable(name) ==
    [type |-> "Variable", name |-> name, function |-> NoFunction,
     parameters |-> <<>>, kw_parameters |-> EmptyFcn]

Call(function_name, parameters) ==
    [type |-> "Call", name |-> "",
     function |-> [scoped |-> FALSE, name |-> function_name],
     parameters |-> parameters, kw_parameters |-> EmptyFcn]

CallWithKwargs(function_name, parameters, kw_parameters) ==
    [type |-> "CallWithKwargs", name |-> "",
     function |-> [scoped |-> FALSE, name |-> function_name],
     parameters |-> parameters, kw_parameters |-> kw_parameters]

ScopedFunction(name) == [scoped |-> TRUE, name |-> name]

IsCall(expr) == expr.type \in {"Call", "CallWithKwargs"}

\* isinstance(insn, (MultiAssignmentBase, CInstruction))
IsCallBearing(insn) ==
    insn.cls \in {"Assignment", "CallInstruction", "CInstruction"}

\* isinstance(insn, _DataObliviousInstruction)
IsDataOblivious(insn) == insn.cls \in {"NoOpInstruction", "BarrierInstruction"}

(***************************************************************************)
(* FunctionScopeChanger                                                    *)
(***************************************************************************)
\* a changer that renames the outermost calls only
RECURSIVE scope_changer_shallow(_, _)
scope_changer_shallow(new_names, expr) ==
    IF IsCall(expr) /\ expr \in DOMAIN new_names
    THEN [expr EXCEPT !.function = ScopedFunction(new_names[expr])]
    ELSE expr

\* map_variable, map_call and map_call_with_kwargs
RECURSIVE scope_changer(_, _)
scope_changer(new_names, expr) ==
    IF ~IsCall(expr)
    THEN expr
    ELSE LET parameters == [k \in 1..Len(expr.parameters) |->
                               scope_changer(new_names, expr.parameters[k])]
             kw_parameters == [kw \in DOMAIN expr.kw_parameters |->
                                  scope_changer(new_names,
                                                expr.kw_parameters[kw])]
             function == IF expr \in DOMAIN new_names
                         THEN ScopedFunction(new_names[expr])
                         ELSE expr.function
         IN IF expr.type = "Call"
            THEN [expr EXCEPT !.function = function,
                              !.parameters = parameters]
            ELSE [expr EXCEPT !.function = function,
                              !.parameters = parameters,
                              !.kw_parameters = kw_parameters]

(***************************************************************************)
(* register_pymbolic_calls_to_knl_callables                                *)
(***************************************************************************)
\* the while loop: the first of unique_name, next_indexed_name(unique_name),
\* ... that is no key of the registry
RECURSIVE find_unique_name(_, _)
find_unique_name(unique_name, registry) ==
    IF unique_name \in DOMAIN registry
    THEN find_unique_name(next_indexed_name(unique_name), registry)
    ELSE unique_name

\* the name of a new Callable
new_name(pymbolic_call, registry) ==
    find_unique_name(next_indexed_name(pymbolic_call.function.name), registry)

\* the Callable that is registered under unique_name
renamed(in_knl_callable, unique_name) ==
    IF in_knl_callable.subkernel # None
    THEN [in_knl_callable EXCEPT
             !.subkernel = Some([in_knl_callable.subkernel[1] EXCEPT
                                    !.name = unique_name])]
    ELSE in_knl_callable

\* the instructions of the returned kernel, from the k-th on: fails on the
\* first instruction of neither kind
RECURSIVE rewrite_instructions(_, _, _)
rewrite_instructions(instructions, new_names, k) ==
    IF k > Len(instructions)
    THEN Ok(<<>>)
    ELSE LET insn == instructions[k]
             rest == rewrite_instructions(instructions, new_names, k + 1)
         IN IF ~IsCallBearing(insn) /\ ~IsDataOblivious(insn)
            THEN Raise("NotImplementedError")
            ELSE IF rest.err # "none"
            THEN rest
            ELSE IF IsCallBearing(insn)
            THEN Ok(<<[insn EXCEPT !.expression =
                          scope_changer(new_names, insn.expression)]>>
                    \o rest.val[1])
            ELSE Ok(<<insn>> \o rest.val[1])

(***************************************************************************)
(* InKernelCallable.emit_call                                              *)
(*   the call expression it returns is [function, parameters]: the name    *)
(*   called and the translated parameters                                  *)
(***************************************************************************)
is_ready_for_code_gen(self) ==
    self.arg_id_to_dtype # None /\ self.arg_id_to_descr # None

get_target_specific_name(self, target) ==
    IF self.subkernel = None
    THEN Raise("NotImplementedError")
    ELSE Ok(self.subkernel[1].name)

\* what the translator of the caller is handed for one parameter: the
\* expression and the dtype that sets its type context
expression_to_code_mapper(par, par_dtype) ==
    [expr |-> par, dtype |-> par_dtype]

\* the positional parameters with self.arg_id_to_dtype[i]
positional_parameters(self, parameters) ==
    IF Len(parameters) = 0
    THEN Ok(<<>>)
    ELSE IF self.arg_id_to_dtype = None
    THEN Raise("TypeError")
    ELSE IF \E i \in 0..(Len(parameters) - 1) :
                i \notin DOMAIN self.arg_id_to_dtype[1].ids
    THEN Raise("KeyError")
    ELSE Ok([k \in 1..Len(parameters) |->
                expression_to_code_mapper(
                    parameters[k], self.arg_id_to_dtype[1].ids[k - 1])])

\* the loop over range(len(parameters), len(parameters)+len(kw_parameters))
keyword_parameters(self, p, kw_parameters) ==
    LET k == Cardinality(DOMAIN kw_parameters)
        pos_to_kw == get_kw_pos_association(self.subkernel[1]).pos_to_kw
        missing(i) == \/ i \notin DOMAIN pos_to_kw
                      \/ pos_to_kw[i] \notin DOMAIN kw_parameters
    IN IF k = 0
       THEN Ok(<<>>)
       ELSE IF missing(p)
       THEN Raise("KeyError")
       ELSE IF self.arg_id_to_dtype = None
       THEN Raise("TypeError")
       ELSE IF \E i \in p..(p + k - 1) :
                   \/ missing(i)
                   \/ pos_to_kw[i] \notin DOMAIN self.arg_id_to_dtype[1].kws
       THEN Raise("KeyError")
       ELSE Ok([j \in 1..k |->
                   expression_to_code_mapper(
                       kw_parameters[pos_to_kw[p + j - 1]],
                       self.arg_id_to_dtype[1].kws[pos_to_kw[p + j - 1]])])

\* the assignees with self.arg_id_to_dtype[-i-1]
assignee_parameters(self, assignees) ==
    IF Len(assignees) = 0
    THEN Ok(<<>>)
    ELSE IF self.arg_id_to_dtype = None
    THEN Raise("TypeError")
    ELSE IF \E i \in 0..(Len(assignees) - 1) :
                (-i - 1) \notin DOMAIN self.arg_id_to_dtype[1].ids
    THEN Raise("KeyError")
    ELSE Ok([k \in 1..Len(assignees) |->
                expression_to_code_mapper(
                    assignees[k], self.arg_id_to_dtype[1].ids[-k])])

\* emit_call that passes the outputs first
emit_call_outputs_first(self, insn, target) ==
    IF insn.cls # "CallInstruction"
    THEN Raise("AssertionError")
    ELSE IF self.subkernel = None
    THEN Raise("AttributeError")
    ELSE LET positional == positional_parameters(self,
                                                 insn.expression.parameters)
             keyword == keyword_parameters(self,
                                           Len(insn.expression.parameters),
                                           insn.expression.kw_parameters)
             assigned == assignee_parameters(self, insn.assignees)
         IN IF positional.err # "none" THEN positional
            ELSE IF keyword.err # "none" THEN keyword
            ELSE IF assigned.err # "none" THEN assigned
            ELSE Ok([function |-> self.subkernel[1].name,
                     parameters |-> assigned.val[1] \o positional.val[1]
                                    \o keyword.val[1]])

emit_call(self, insn, target) ==
    IF insn.cls # "CallInstruction"
    THEN Raise("AssertionError")
    ELSE IF ~IsCall(insn.expression)
    THEN Raise("AttributeError")
    ELSE LET positional == positional_parameters(self,
                                                 insn.expression.parameters)
         IN IF positional.err # "none"
            THEN positional
            ELSE IF self.subkernel = None
            THEN Raise("AttributeError")
            ELSE LET keyword == keyword_parameters(
                                    self, Len(insn.expression.parameters),
                                    IF insn.expression.type = "CallWithKwargs"
                                    THEN insn.expression.kw_parameters
                                    ELSE EmptyFcn)
                     assigned == assignee_parameters(self, insn.assignees)
                     name == get_target_specific_name(self, target)
                 IN IF keyword.err # "none" THEN keyword
                    ELSE IF assigned.err # "none" THEN assigned
                    ELSE IF name.err # "none" THEN name
                    ELSE Ok([function |-> name.val[1],
                             parameters |-> positional.val[1]
                                            \o keyword.val[1]
                                            \o assigned.val[1]])

(***************************************************************************)
(* The inputs the specifications draw from                                 *)
(***************************************************************************)
sin == <<"s", "i", "n">>
sqrt == <<"s", "q", "r", "t">>
max == <<"m", "a", "x">>
f == <<"f">>

ScalarNames == {sin, sqrt, max, f}
ScalarIds == {-1, 0, 1}
ScalarInDtypes == {"int32", "uint32", "float32", "float64", "complex64"}
SubkernelInDtypes == {"int32", "float64"}

ScalarMaps ==
    {IdDict(m) : m \in UNION {[D -> {NumpyType(d) : d \in ScalarInDtypes}] :
                                 D \in SUBSET ScalarIds}}

\* what the body of a subkernel does with an argument
Roles == {"read", "written", "readwritten", "unused"}

ArgNameAt == <<"a", "b", "c", "d">>

\* the subkernel `name` whose i-th argument has role roles[i] and the
\* declared shape shapes[i]
MakeKernel(name, roles, shapes) ==
    [name |-> name,
     args |-> [i \in 1..Len(roles) |->
                  [name |-> ArgNameAt[i], dtype |-> None,
                   shape |-> shapes[i],
                   dim_tags |-> IF shapes[i] = None THEN None
                                ELSE Some([k \in 1..Len(shapes[i][1]) |->
                                              "unit"])]],
     read |-> {ArgNameAt[i] : i \in {j \in 1..Len(roles) :
                                        roles[j] \in {"read", "readwritten"}}},
     written |-> {ArgNameAt[i] : i \in {j \in 1..Len(roles) :
                                        roles[j] \in {"written", "readwritten"}}}]

RoleSeqs(n) == UNION {[1..k -> Roles] : k \in 0..n}

\* how a caller supplies the dtype of one argument: not at all, by its
\* name, by its id, or by both
SupplyChoices ==
    {<<"absent", "int32">>} \cup ({"kw", "id", "both"} \X SubkernelInDtypes)

SuppliedMap(kernel, c) ==
    LET n == Len(kernel.args)
        byKw == {i \in 1..n : c[i][1] \in {"kw", "both"}}
        byId == {i \in 1..n : c[i][1] \in {"id", "both"}}
    IN [ids |-> [pos \in {arg_id(kernel, i) : i \in byId} |->
                    NumpyType(c[CHOOSE i \in byId :
                                    arg_id(kernel, i) = pos][2])],
        kws |-> [kw \in {kernel.args[i].name : i \in byKw} |->
                    NumpyType(c[CHOOSE i \in byKw :
                                    kernel.args[i].name = kw][2])]]

SuppliedMaps(kernel) ==
    {SuppliedMap(kernel, c) : c \in [1..Len(kernel.args) -> SupplyChoices]}

\* a mapping that names no argument of the subkernel at all
StrayMaps == {[ids |-> EmptyFcn, kws |-> [kw \in {"z"} |-> NumpyType("int32")]]}

\* the mappings a Callable is specialized with
MapsFor(callable) ==
    IF callable.subkernel = None
    THEN ScalarMaps
    ELSE SuppliedMaps(callable.subkernel[1]) \cup StrayMaps

(***************************************************************************)
(* Specification SpecTypes: with_types on an unspecialized Callable, and   *)
(* then once more on what it returned                                      *)
(***************************************************************************)
UnspecializedCallables ==
    {InKernelCallable(name, None) : name \in ScalarNames}
    \cup {InKernelCallable(f, Some(MakeKernel(f, roles,
                                        [i \in 1..Len(roles) |-> None]))) :
             roles \in RoleSeqs(MaxTypedArgs)}

InitTypes ==
    /\ t_self \in UnspecializedCallables
    /\ t_map \in MapsFor(t_self)
    /\ t_target \in Targets
    /\ t_res = <<>>
    /\ t_map2 = <<>>
    /\ t_res2 = <<>>
    /\ tpc = "unspecialized"
    /\ IdleName
    /\ IdleDescr
    /\ IdlePass
    /\ IdleEmit
    /\ IdlePipe

WithTypes ==
    /\ tpc = "unspecialized"
    /\ t_res' = with_types(t_self, t_map, t_target)
    /\ tpc' = IF t_res'.err = "none" THEN "specialized" ELSE "failed"
    /\ UNCHANGED <<t_self, t_map, t_target, t_map2, t_res2>>
    /\ UNCHANGED <<nameVars, descrVars, passVars, emitVars, pipeVars>>

WithTypesAgain ==
    /\ tpc = "specialized"
    /\ \E m2 \in MapsFor(t_self) :
          /\ t_map2' = m2
          /\ t_res2' = with_types(t_res.val[1], m2, t_target)
    /\ tpc' = "respecialized"
    /\ UNCHANGED <<t_self, t_map, t_target, t_res>>
    /\ UNCHANGED <<nameVars, descrVars, passVars, emitVars, pipeVars>>

NextTypes == WithTypes \/ WithTypesAgain

SpecTypes == InitTypes /\ [][NextTypes]_vars

(***************************************************************************)
(* Claims about type specialization, checked under SpecTypes               *)
(***************************************************************************)
\* the first with_types has returned or raised
Typed == tpc \in {"specialized", "failed", "respecialized"}

\* numeric promotion of two input dtypes (numpy's result type)
C3_Promotion(d0, d1) ==
    LET ds == {d0, d1}
    IN IF "complex64" \in ds
       THEN IF ds \subseteq {"complex64", "float32"}
            THEN "complex64" ELSE "complex128"
       ELSE IF "float64" \in ds THEN "float64"
       ELSE IF "float32" \in ds
            THEN IF ds = {"float32"} THEN "float32" ELSE "float64"
       ELSE IF ds = {"int32"} THEN "int32"
       ELSE IF ds = {"uint32"} THEN "uint32"
       ELSE "int64"

\* C3: type specialization of max or min with a mapping that holds d0 at id
\* 0 and d1 at id 1 returns exactly {-1: r, 0: d0, 1: d1}, r being the
\* promotion of d0 and d1 when that is a float and float32 when it is an
\* integer or unsigned; the dtypes at ids 0 and 1 are returned unchanged.
C3_BinaryPromotion ==
    (/\ Typed
     /\ t_self.subkernel = None
     /\ t_self.name \in BinaryNames
     /\ DOMAIN t_map.ids \subseteq {-1, 0, 1}
     /\ {0, 1} \subseteq DOMAIN t_map.ids
     /\ kind(C3_Promotion(t_map.ids[0].dtype, t_map.ids[1].dtype))
            \in {"f", "i", "u"})
    => LET p == C3_Promotion(t_map.ids[0].dtype, t_map.ids[1].dtype)
           r == IF kind(p) = "f" THEN p ELSE "float32"
       IN /\ t_res.err = "none"
          /\ t_res.val[1].arg_id_to_dtype =
                Some(IdDict([id \in {-1, 0, 1} |->
                                IF id = -1 THEN [dtype |-> r]
                                ELSE t_map.ids[id]]))

\* C4: type specialization of a unary intrinsic with a mapping whose ids lie
\* in {-1, 0} and that holds d at id 0 returns exactly {-1: r, 0: r}, r = d
\* for a float d and r = float32 for an integer or unsigned d; for any other
\* kind it raises the unsupported-dtype error and returns nothing. This is
\* so on every target (the formula does not read t_target, which ranges
\* over C, OpenCL, PyOpenCL and CUDA).
C4_UnaryPromotion ==
    (/\ Typed
     /\ t_self.subkernel = None
     /\ t_self.name \in UnaryNames
     /\ DOMAIN t_map.ids \subseteq {-1, 0}
     /\ 0 \in DOMAIN t_map.ids)
    => LET d == t_map.ids[0].dtype
           r == IF kind(d) = "f" THEN d ELSE "float32"
       IN IF kind(d) \in {"f", "i", "u"}
          THEN /\ t_res.err = "none"
               /\ t_res.val[1].name = t_self.name
               /\ t_res.val[1].arg_id_to_dtype =
                     Some(IdDict([id \in {-1, 0} |-> [dtype |-> r]]))
          ELSE /\ t_res.err = UnsupportedDtypeError
               /\ t_res.val = <<>>

\* sqrt of an int32 has been specialized to float32 on a target that is not
\* the base family
C4_Witness ==
    /\ tpc = "specialized"
    /\ t_self.name = sqrt
    /\ t_target = "PyOpenCLTarget"
    /\ t_map = IdDict([id \in {0} |-> [dtype |-> "int32"]])
    /\ t_res.val[1].arg_id_to_dtype =
          Some(IdDict([id \in {-1, 0} |-> [dtype |-> "float32"]]))

\* C5 as stated: once with_types(C, m1) returned R, with_types(R, m2) with
\* m2 # m1 raises the double-specialization error and returns no Callable.
C5_ConflictOnDifferentInput ==
    (tpc = "respecialized" /\ t_map2 # t_map)
    => (t_res2.err = DoubleSpecializationError /\ t_res2.val = <<>>)

\* C5 as amended: once with_types(C, m1) returned R and R carries the
\* non-empty mapping M, with_types(R, m2) raises the double-specialization
\* error and returns no Callable for every m2 # M, and returns a Callable
\* equal to R for m2 = M.
C5_ConflictOnCarriedMapping ==
    (/\ tpc = "respecialized"
     /\ Truthy(t_res.val[1].arg_id_to_dtype[1]))
    => IF t_map2 = t_res.val[1].arg_id_to_dtype[1]
       THEN t_res2 = Ok(t_res.val[1])
       ELSE t_res2.err = DoubleSpecializationError /\ t_res2.val = <<>>

\* the mapping the Callable was first specialized with is supplied again,
\* differs from the one it carries, and is refused
C5_Witness ==
    /\ tpc = "respecialized"
    /\ t_map2 = t_map
    /\ t_map2 # t_res.val[1].arg_id_to_dtype[1]
    /\ t_res2.err = DoubleSpecializationError

(***************************************************************************)
(* Specification SpecSubkernelTypes: with_types on an unspecialized         *)
(* Callable that wraps a subkernel                                         *)
(***************************************************************************)
\* the Callables of a subkernel: under a name of its own, and under the name
\* of an intrinsic
SubkernelCallables ==
    {InKernelCallable(name, Some(MakeKernel(f, roles,
                                     [i \in 1..Len(roles) |-> None]))) :
        name \in {f, sin}, roles \in RoleSeqs(MaxSubkernelArgs)}

\* a Callable under the name of an intrinsic is given ids only
SubkernelMapsFor(callable) ==
    IF callable.name = f
    THEN MapsFor(callable)
    ELSE {m \in SuppliedMaps(callable.subkernel[1]) : DOMAIN m.kws = {}}

InitSubkernelTypes ==
    /\ t_self \in SubkernelCallables
    /\ t_map \in SubkernelMapsFor(t_self)
    /\ t_target \in Targets
    /\ t_res = <<>>
    /\ t_map2 = <<>>
    /\ t_res2 = <<>>
    /\ tpc = "unspecialized"
    /\ IdleName
    /\ IdleDescr
    /\ IdlePass
    /\ IdleEmit
    /\ IdlePipe

NextSubkernelTypes == WithTypes

SpecSubkernelTypes == InitSubkernelTypes /\ [][NextSubkernelTypes]_vars

\* some argument the subkernel reads has no dtype in t_map, neither under
\* its name nor under its id
MissingReadDtype ==
    LET kernel == t_self.subkernel[1]
    IN \E i \in 1..Len(kernel.args) :
          /\ kernel.args[i].name \in kernel.read
          /\ kernel.args[i].name \notin DOMAIN t_map.kws
          /\ arg_id(kernel, i) \notin DOMAIN t_map.ids

\* the arg_id_to_dtype of the returned Callable: every argument under its
\* name and under its id with one dtype, the ids 0..r-1 and -1..-w in the
\* order of the declarations, the numbering that of get_kw_pos_association
DtypeMappingComplete ==
    LET kernel == t_res.val[1].subkernel[1]
        n == Len(kernel.args)
        m == t_res.val[1].arg_id_to_dtype[1]
        assoc == get_kw_pos_association(kernel)
        inputs == {i \in 1..n : kernel.args[i].name \notin kernel.written}
        outputs == {i \in 1..n : kernel.args[i].name \in kernel.written}
        r == Cardinality(inputs)
        w == Cardinality(outputs)
    IN /\ DOMAIN m.kws = ArgNamesOf(kernel)
       /\ DOMAIN m.ids = (0..(r - 1)) \cup {-j : j \in 1..w}
       /\ DOMAIN assoc.pos_to_kw = DOMAIN m.ids
       /\ \A i \in 1..n :
             /\ kernel.args[i].dtype # None
             /\ m.kws[kernel.args[i].name] = kernel.args[i].dtype[1]
             /\ m.ids[assoc.kw_to_pos[kernel.args[i].name]]
                   = m.kws[kernel.args[i].name]
             /\ assoc.pos_to_kw[assoc.kw_to_pos[kernel.args[i].name]]
                   = kernel.args[i].name
       /\ \A i \in inputs :
             assoc.kw_to_pos[kernel.args[i].name]
                = Cardinality({j \in inputs : j < i})
       /\ \A i \in outputs :
             assoc.kw_to_pos[kernel.args[i].name]
                = -1 - Cardinality({j \in outputs : j < i})

Shape2 == <<4, 4>>
Shape3 == <<4, 4, 4>>
Tags2 == <<"stride:4", "stride:1">>
Tags3 == <<"stride:16", "stride:4", "stride:1">>

DescrKernels ==
    UNION {{MakeKernel(f, roles, shapes) :
               roles \in [1..n -> {"read", "written"}],
               shapes \in [1..n -> {Some(Shape2), Some(Shape3)}]} :
           n \in 0..MaxDescrArgs}

Descrs ==
    {ArrayArgDescriptor(Shape2, Some("GLOBAL"), Some(Tags2)),
     ArrayArgDescriptor(Shape3, Some("GLOBAL"), Some(Tags3))}

DescrKeys ==
    {IdKey(id) : id \in (-MaxDescrArgs)..(MaxDescrArgs - 1)}
    \cup {KwKey(ArgNameAt[i]) : i \in 1..MaxDescrArgs}

\* the items of a dict: no key twice
DescrItems ==
    UNION {{items \in [1..n -> [key : DescrKeys, descr : Descrs]] :
               \A j, k \in 1..n : j # k => items[j].key # items[k].key} :
           n \in 0..MaxDescrs}

InitDescr ==
    /\ d_self \in {InKernelCallable(f, Some(kernel)) : kernel \in DescrKernels}
    /\ d_items \in DescrItems
    /\ d_op = "none"
    /\ d_res = <<>>
    /\ dpc = "call"
    /\ IdleName
    /\ IdleTypes
    /\ IdlePass
    /\ IdleEmit
    /\ IdlePipe

WithDescrs ==
    /\ dpc = "call"
    /\ d_op' = "with_descrs"
    /\ d_res' = with_descrs(d_self, d_items)
    /\ dpc' = "returned"
    /\ UNCHANGED <<d_self, d_items>>
    /\ UNCHANGED <<nameVars, typeVars, passVars, emitVars, pipeVars>>

WithDescriptors ==
    /\ dpc = "call"
    /\ d_op' = "with_descriptors"
    /\ d_res' = with_descriptors(d_self, d_items)
    /\ dpc' = "returned"
    /\ UNCHANGED <<d_self, d_items>>
    /\ UNCHANGED <<nameVars, typeVars, passVars, emitVars, pipeVars>>

NextDescr == WithDescrs \/ WithDescriptors

SpecDescr == InitDescr /\ [][NextDescr]_vars

\* the declared place of the argument an item is supplied for: by its name,
\* or by its id in the bijection of get_kw_pos_association; 0 when there is
\* no such argument
TargetOf(kernel, key) ==
    IF key.kind = "kw"
    THEN IF key.kw \in ArgNamesOf(kernel)
         THEN CHOOSE i \in 1..Len(kernel.args) : kernel.args[i].name = key.kw
         ELSE 0
    ELSE bijection_index(kernel, key.id)

\* every item is supplied for an argument of the subkernel, and no two items
\* for the same one
WellSupplied(kernel, items) ==
    /\ \A k \in 1..Len(items) : TargetOf(kernel, items[k].key) # 0
    /\ \A j, k \in 1..Len(items) :
          j # k => TargetOf(kernel, items[j].key) # TargetOf(kernel, items[k].key)

\* some item carries a number of dim tags other than the declared rank of
\* its argument
RankMismatch(kernel, items) ==
    \E k \in 1..Len(items) :
        Len(items[k].descr.dim_tags[1])
            # Len(kernel.args[TargetOf(kernel, items[k].key)].shape[1])

\* C7: shape specialization of a subkernel Callable raises the
\* dimension-mismatch error and returns no Callable whenever some supplied
\* id (a name or a position) comes with a descriptor whose number of dim
\* tags differs from the declared rank of its argument; when all ranks
\* agree it returns the updated Callable.
C7_DimensionCheck ==
    (/\ dpc = "returned"
     /\ WellSupplied(d_self.subkernel[1], d_items))
    => IF RankMismatch(d_self.subkernel[1], d_items)
       THEN d_res.err = DimensionMismatchError /\ d_res.val = <<>>
       ELSE d_res.err = "none"

\* C10: with_descrs on a subkernel Callable overlays the shape and dim_tags
\* of each supplied descriptor onto exactly the argument whose id in the
\* bijection is the supplied id or whose name is the supplied name, and
\* leaves every other argument as it was, whatever the order in which read
\* and written arguments are declared.
C10_OverlayByBijection ==
    (/\ dpc = "returned"
     /\ d_op = "with_descrs"
     /\ WellSupplied(d_self.subkernel[1], d_items))
    => /\ d_res.err = "none"
       /\ LET old == d_self.subkernel[1]
              new == d_res.val[1].subkernel[1]
          IN /\ Len(new.args) = Len(old.args)
             /\ \A i \in 1..Len(old.args) :
                   IF \E k \in 1..Len(d_items) :
                          TargetOf(old, d_items[k].key) = i
                   THEN LET k == CHOOSE k \in 1..Len(d_items) :
                                     TargetOf(old, d_items[k].key) = i
                        IN new.args[i] =
                              [old.args[i] EXCEPT
                                  !.shape = d_items[k].descr.shape,
                                  !.dim_tags = d_items[k].descr.dim_tags]
                   ELSE new.args[i] = old.args[i]

(***************************************************************************)
(* Specification SpecScope: the scoping pass on a kernel and a mapping of  *)
(* its call sites to specialized Callables                                 *)
(***************************************************************************)
f_0 == <<"f", "_", "0">>
sin_0 == <<"s", "i", "n", "_", "0">>
sin_1 == <<"s", "i", "n", "_", "1">>

\* the scalar Callable `name`, specialized for an argument of dtype d
ReadyScalar(name, d) ==
    with_descrs(
        with_types(InKernelCallable(name, None),
                   IdDict([id \in {0} |-> NumpyType(d)]), "CTarget").val[1],
        <<[key |-> IdKey(0), descr |-> ValueArgDescriptor]>>).val[1]

\* the Callable f of a subkernel called kernel_name that reads the array a
\* and writes the array b, specialized for an a of dtype d
ReadySubkernel(kernel_name, d) ==
    with_descrs(
        with_types(
            InKernelCallable(f, Some(MakeKernel(kernel_name,
                                                <<"read", "written">>,
                                                <<Some(Shape2), Some(Shape2)>>))),
            [ids |-> EmptyFcn, kws |-> [kw \in {"a"} |-> NumpyType(d)]],
            "CTarget").val[1],
        <<[key |-> KwKey("a"),
           descr |-> ArrayArgDescriptor(Shape2, Some("GLOBAL"), Some(Tags2))],
          [key |-> KwKey("b"),
           descr |-> ArrayArgDescriptor(Shape2, Some("GLOBAL"), Some(Tags2))]>>
        ).val[1]

\* the Callables a call site may have been resolved to
ScalarPool == {ReadyScalar(sin, d) : d \in {"int32", "float32", "float64"}}

SubkernelPool ==
    {ReadySubkernel(kernel_name, d) :
        kernel_name \in {f, f_0}, d \in SubkernelInDtypes}

CallablesFor(call) ==
    IF call.function.name = f THEN SubkernelPool ELSE ScalarPool

Instruction(cls, expression, assignees) ==
    [cls |-> cls, expression |-> expression, assignees |-> assignees]

InstructionPool ==
    << Instruction("Assignment", Call(sin, <<Variable("i")>>),
                   <<Variable("y")>>),
       Instruction("Assignment", Call(sin, <<Variable("x")>>),
                   <<Variable("z")>>),
       Instruction("CallInstruction", Call(f, <<Variable("p")>>),
                   <<Variable("q")>>),
       Instruction("CallInstruction", Call(f, <<Variable("r")>>),
                   <<Variable("s")>>),
       Instruction("Assignment",
                   Call(sin, <<Call(sin, <<Variable("x")>>)>>),
                   <<Variable("w")>>),
       Instruction("CallInstruction",
                   CallWithKwargs(f, <<Variable("p")>>,
                                  [kw \in {"b"} |->
                                      Call(sin, <<Variable("x")>>)]),
                   <<Variable("q")>>),
       Instruction("NoOpInstruction", Variable(""), <<>>),
       Instruction("UnknownInstruction", Variable(""), <<>>) >>

\* the instructions of the pool at the places of S, in the order of the pool
RECURSIVE PoolInstructions(_, _)
PoolInstructions(S, k) ==
    IF k > Len(InstructionPool) THEN <<>>
    ELSE (IF k \in S THEN <<InstructionPool[k]>> ELSE <<>>)
         \o PoolInstructions(S, k + 1)

RECURSIVE CallsIn(_)
CallsIn(expr) ==
    IF ~IsCall(expr) THEN {}
    ELSE {expr} \cup UNION {CallsIn(expr.parameters[k]) :
                               k \in 1..Len(expr.parameters)}
                \cup UNION {CallsIn(expr.kw_parameters[kw]) :
                               kw \in DOMAIN expr.kw_parameters}

AllCalls(instructions) ==
    UNION {CallsIn(instructions[k].expression) : k \in 1..Len(instructions)}

\* the registries a kernel may already hold
RegistryPool ==
    { EmptyFcn,
      [n \in {sin_0} |-> ReadyScalar(sin, "float32")],
      [n \in {sin_0, sin_1} |->
          IF n = sin_0 THEN ReadyScalar(sin, "float64")
          ELSE ReadyScalar(sin, "float32")],
      [n \in {f_0} |-> ReadySubkernel(f_0, "int32")],
      [n \in {sin_0, f_0} |->
          IF n = sin_0 THEN ReadyScalar(sin, "float32")
          ELSE ReadySubkernel(f_0, "float64")] }

\* the mappings of the call sites K to Callables
MappingsOf(K) ==
    {m \in [K -> ScalarPool \cup SubkernelPool] :
        \A c \in K : m[c] \in CallablesFor(c)}

InitPass ==
    /\ \E S \in SUBSET (1..Len(InstructionPool)) :
          /\ Cardinality(S) \in 1..MaxInsns
          /\ \E registry \in RegistryPool :
                knl = [scoped_functions |-> registry,
                       instructions |-> PoolInstructions(S, 1)]
    /\ \E K \in SUBSET AllCalls(knl.instructions) :
          calls_to_callables \in MappingsOf(K)
    /\ scoped_names_to_functions = knl.scoped_functions
    /\ scoped_functions_to_names = EmptyFcn
    /\ pymbolic_calls_to_new_names = EmptyFcn
    /\ r_res = <<>>
    /\ rpc = "loop"

InitScope ==
    /\ InitPass
    /\ IdleName
    /\ IdleTypes
    /\ IdleDescr
    /\ IdleEmit
    /\ IdlePipe

\* one turn of the loop over pymbolic_calls_to_kernel_callables.items(), for an
\* item not handled yet (the dict gives no order)
RegisterCall ==
    /\ rpc = "loop"
    /\ \E pymbolic_call \in DOMAIN calls_to_callables
                              \ DOMAIN pymbolic_calls_to_new_names :
          LET in_kernel_callable == calls_to_callables[pymbolic_call]
          IN IF in_kernel_callable \notin DOMAIN scoped_functions_to_names
             THEN LET unique_name == new_name(pymbolic_call,
                                              scoped_names_to_functions)
                      registered == renamed(in_kernel_callable, unique_name)
                  IN /\ scoped_names_to_functions' =
                           [n \in DOMAIN scoped_names_to_functions
                                     \cup {unique_name} |->
                               IF n = unique_name THEN registered
                               ELSE scoped_names_to_functions[n]]
                     /\ scoped_functions_to_names' =
                           [c \in DOMAIN scoped_functions_to_names
                                     \cup {registered} |->
                               IF c = registered THEN unique_name
                               ELSE scoped_functions_to_names[c]]
                     /\ pymbolic_calls_to_new_names' =
                           [c \in DOMAIN pymbolic_calls_to_new_names
                                     \cup {pymbolic_call} |->
                               IF c = pymbolic_call THEN unique_name
                               ELSE pymbolic_calls_to_new_names[c]]
             ELSE /\ pymbolic_calls_to_new_names' =
                        [c \in DOMAIN pymbolic_calls_to_new_names
                                  \cup {pymbolic_call} |->
                            IF c = pymbolic_call
                            THEN scoped_functions_to_names[in_kernel_callable]
                            ELSE pymbolic_calls_to_new_names[c]]
                  /\ UNCHANGED <<scoped_names_to_functions,
                                 scoped_functions_to_names>>
    /\ UNCHANGED <<knl, calls_to_callables, r_res, rpc>>
    /\ UNCHANGED <<nameVars, typeVars, descrVars, emitVars, pipeVars>>

\* the rest of the pass, once the loop is over: the instructions are
\* rewritten and the new kernel is returned
RewriteInstructions ==
    /\ rpc = "loop"
    /\ DOMAIN pymbolic_calls_to_new_names = DOMAIN calls_to_callables
    /\ LET new_insns == rewrite_instructions(knl.instructions,
                                             pymbolic_calls_to_new_names, 1)
       IN IF new_insns.err # "none"
          THEN r_res' = Raise(new_insns.err) /\ rpc' = "failed"
          ELSE /\ r_res' = Ok([knl EXCEPT
                                  !.scoped_functions = scoped_names_to_functions,
                                  !.instructions = new_insns.val[1]])
               /\ rpc' = "done"
    /\ UNCHANGED <<knl, calls_to_callables, scoped_names_to_functions,
                   scoped_functions_to_names, pymbolic_calls_to_new_names>>
    /\ UNCHANGED <<nameVars, typeVars, descrVars, emitVars, pipeVars>>

NextScope == RegisterCall \/ RewriteInstructions

SpecScope == InitScope /\ [][NextScope]_vars

(***************************************************************************)
(* Claims about the scoping pass, checked under SpecScope                  *)
(***************************************************************************)
\* the call sites the loop has given a name
Named == DOMAIN pymbolic_calls_to_new_names

\* C1: any two call sites whose Callables are structurally equal are given
\* the identical name and share one registry entry, the Callable itself
\* with its subkernel, if it wraps one, renamed to that name.
C1_EqualCallablesShareName ==
    rpc \in {"loop", "done", "failed"} =>
        \A c1, c2 \in Named :
            calls_to_callables[c1] = calls_to_callables[c2] =>
                /\ pymbolic_calls_to_new_names[c1]
                      = pymbolic_calls_to_new_names[c2]
                /\ pymbolic_calls_to_new_names[c1]
                      \in DOMAIN scoped_names_to_functions
                /\ scoped_names_to_functions[pymbolic_calls_to_new_names[c1]]
                      = renamed(calls_to_callables[c1],
                                pymbolic_calls_to_new_names[c1])

\* no name was assigned while it was a key of the registry: the names
\* assigned are none of the kernel's, and none was assigned twice
NamesWereFresh ==
    \A c \in DOMAIN scoped_functions_to_names :
        /\ scoped_functions_to_names[c] \notin DOMAIN knl.scoped_functions
        /\ scoped_functions_to_names[c] \in DOMAIN scoped_names_to_functions
        /\ scoped_names_to_functions[scoped_functions_to_names[c]] = c

\* every entry the kernel had is in the registry under its old name
OldEntriesKept ==
    \A n \in DOMAIN knl.scoped_functions :
        /\ n \in DOMAIN scoped_names_to_functions
        /\ scoped_names_to_functions[n] = knl.scoped_functions[n]

\* C2: every name the pass synthesizes is fresh when it is assigned; so two
\* call sites whose Callables are not structurally equal never share a name,
\* and every entry the registry had is still there under its old name with
\* its old Callable.
C2_FreshNames ==
    rpc \in {"loop", "done", "failed"} =>
        /\ NamesWereFresh
        /\ \A c1, c2 \in Named :
              calls_to_callables[c1] # calls_to_callables[c2] =>
                  pymbolic_calls_to_new_names[c1]
                      # pymbolic_calls_to_new_names[c2]
        /\ OldEntriesKept

\* the names under which the kernel's registry holds a Callable equal to the
\* one the call site is resolved to
NamesHeldFor(call) ==
    {n \in DOMAIN knl.scoped_functions :
        knl.scoped_functions[n] = calls_to_callables[call]}

\* C11: a call site whose Callable is structurally equal to one the kernel's
\* registry already holds under the name n is assigned n, and no entry is
\* added for it; so a pass on a kernel whose registry holds every Callable of
\* the mapping leaves the set of registry names as it was.
C11_RegistryEntryReused ==
    rpc \in {"loop", "done", "failed"} =>
        /\ \A call \in Named :
              NamesHeldFor(call) # {} =>
                 pymbolic_calls_to_new_names[call] \in NamesHeldFor(call)
        /\ (\A call \in Named : NamesHeldFor(call) # {})
              => DOMAIN scoped_names_to_functions
                    = DOMAIN knl.scoped_functions

\* the expression `new` is `old` with the function of every call that is a
\* key of new_names replaced by the scoped function of its name, at any
\* depth, and nothing else changed
RECURSIVE RewrittenAs(_, _, _)
RewrittenAs(new, old, new_names) ==
    IF ~IsCall(old)
    THEN new = old
    ELSE /\ new.type = old.type
         /\ new.name = old.name
         /\ new.function = IF old \in DOMAIN new_names
                           THEN ScopedFunction(new_names[old])
                           ELSE old.function
         /\ Len(new.parameters) = Len(old.parameters)
         /\ \A k \in 1..Len(old.parameters) :
               RewrittenAs(new.parameters[k], old.parameters[k], new_names)
         /\ DOMAIN new.kw_parameters = DOMAIN old.kw_parameters
         /\ \A kw \in DOMAIN old.kw_parameters :
               RewrittenAs(new.kw_parameters[kw], old.kw_parameters[kw],
                           new_names)

\* some instruction of the kernel is neither call-bearing nor data-oblivious
HasUnsupportedInstruction ==
    \E k \in 1..Len(knl.instructions) :
        /\ ~IsCallBearing(knl.instructions[k])
        /\ ~IsDataOblivious(knl.instructions[k])

\* what the rewrite step has returned or raised
RewriteOutcome ==
    /\ (rpc \in {"done", "failed"} /\ HasUnsupportedInstruction)
          => /\ rpc = "failed"
             /\ r_res.err = "NotImplementedError"
             /\ r_res.val = <<>>
    /\ (rpc \in {"done", "failed"} /\ ~HasUnsupportedInstruction)
          => /\ rpc = "done"
             /\ r_res.err = "none"
             /\ Len(r_res.val[1].instructions) = Len(knl.instructions)
             /\ \A k \in 1..Len(knl.instructions) :
                   LET old == knl.instructions[k]
                       new == r_res.val[1].instructions[k]
                   IN IF IsCallBearing(old)
                      THEN /\ new.cls = old.cls
                           /\ new.assignees = old.assignees
                           /\ RewrittenAs(new.expression, old.expression,
                                          pymbolic_calls_to_new_names)
                      ELSE new = old

\* C13: the rewrite step returns a kernel with as many instructions, in the
\* same order; in each call-bearing instruction every call that is a key of
\* the call-site-to-name map, at any nesting depth, references its assigned
\* name and nothing else is changed; a data-oblivious instruction is passed
\* through unchanged; an instruction of neither kind makes the pass fail
\* with the unsupported-instruction error and no kernel; and no step of the
\* pass changes the registry or the instructions of the input kernel.
C13_RewriteStep ==
    /\ []RewriteOutcome
    /\ [][knl' = knl]_vars

\* a call nested in the arguments of a renamed call has been renamed, next
\* to an instruction that is passed through
C13_Witness ==
    /\ rpc = "done"
    /\ \E k \in 1..Len(knl.instructions) :
          LET old == knl.instructions[k].expression
              new == r_res.val[1].instructions[k].expression
          IN /\ IsCall(old)
             /\ old \in DOMAIN pymbolic_calls_to_new_names
             /\ Len(old.parameters) = 1
             /\ IsCall(old.parameters[1])
             /\ old.parameters[1] \in DOMAIN pymbolic_calls_to_new_names
             /\ new.function.scoped
             /\ new.parameters[1].function.scoped
    /\ \E k \in 1..Len(knl.instructions) :
          IsDataOblivious(knl.instructions[k])

(***************************************************************************)
(* Specification SpecEmit: emit_call of a Callable on an instruction       *)
(***************************************************************************)
EmitRoles == {"read", "written", "readwritten"}
EmitDtypes == <<"int32", "float64", "float32", "complex64">>
ParameterNameAt == <<"x0", "x1", "x2", "x3">>
AssigneeNameAt == <<"y0", "y1", "y2", "y3">>

EmitKernels ==
    {MakeKernel(f, roles, [i \in 1..Len(roles) |-> None]) :
        roles \in UNION {[1..n -> EmitRoles] : n \in 0..MaxEmitArgs}}

\* the Callable of the subkernel, specialized with the dtype EmitDtypes[i]
\* for its i-th argument and with no descriptor changed
ReadyForEmit(kernel) ==
    with_descrs(
        with_types(
            InKernelCallable(f, Some(kernel)),
            [ids |-> EmptyFcn,
             kws |-> [kw \in ArgNamesOf(kernel) |->
                         NumpyType(EmitDtypes[
                             CHOOSE i \in 1..Len(kernel.args) :
                                 kernel.args[i].name = kw])]],
            "CTarget").val[1],
        <<>>).val[1]

EmitCallables ==
    {ReadyForEmit(kernel) : kernel \in EmitKernels}
    \cup {ReadyScalar(sin, "float32"),
          InKernelCallable(f, Some(MakeKernel(f, <<"read", "written">>,
                                              <<None, None>>)))}

\* the call f(x0, .., kw=kw, ..) assigned to y0, ..
EmitInstructions ==
    {Instruction("CallInstruction",
                 IF kws = {}
                 THEN Call(f, [i \in 1..p |-> Variable(ParameterNameAt[i])])
                 ELSE CallWithKwargs(
                          f, [i \in 1..p |-> Variable(ParameterNameAt[i])],
                          [kw \in kws |-> Variable(kw)]),
                 [j \in 1..m |-> Variable(AssigneeNameAt[j])]) :
        p \in 0..MaxCallArgs,
        kws \in SUBSET {ArgNameAt[i] : i \in 1..MaxEmitArgs},
        m \in 0..MaxCallArgs}
    \cup {Instruction("Assignment", Call(f, <<Variable("x0")>>),
                      <<Variable("y0")>>)}

InitEmit ==
    /\ e_self \in EmitCallables
    /\ e_insn \in EmitInstructions
    /\ e_target \in Targets
    /\ e_res = <<>>
    /\ epc = "called"
    /\ IdleName
    /\ IdleTypes
    /\ IdleDescr
    /\ IdlePass
    /\ IdlePipe

EmitCall ==
    /\ epc = "called"
    /\ e_res' = emit_call(e_self, e_insn, e_target)
    /\ epc' = "returned"
    /\ UNCHANGED <<e_self, e_insn, e_target>>
    /\ UNCHANGED <<nameVars, typeVars, descrVars, passVars, pipeVars>>

NextEmit == EmitCall

SpecEmit == InitEmit /\ [][NextEmit]_vars

\* the call gives the first arguments the subkernel reads by position, the
\* next ones by keyword, and has no more assignees than the subkernel writes
WellFormedCall(self, insn) ==
    LET kernel == self.subkernel[1]
        n == Len(kernel.args)
        p == Len(insn.expression.parameters)
        kws == DOMAIN insn.expression.kw_parameters
        inputs == {i \in 1..n : kernel.args[i].name \notin kernel.written}
        outputs == {i \in 1..n : kernel.args[i].name \in kernel.written}
    IN /\ insn.cls = "CallInstruction"
       /\ p + Cardinality(kws) <= Cardinality(inputs)
       /\ kws = {kernel.args[i].name :
                    i \in {j \in inputs : arg_id(kernel, j) >= p
                               /\ arg_id(kernel, j) < p + Cardinality(kws)}}
       /\ Len(insn.assignees) <= Cardinality(outputs)

\* C8: emit_call on a ready subkernel Callable returns for a well-formed
\* call, and the argument list it returns is the positional argument
\* expressions in order, then the keyword argument expressions by ascending
\* bijection id, then the assignees in order; its length is
\* #positional + #keyword + #assignees; the k-th input is translated with
\* the resolved dtype of id k and the j-th assignee with that of id -(j+1).
C8_EmitCallParameters ==
    (/\ epc = "returned"
     /\ e_self.subkernel # None
     /\ is_ready_for_code_gen(e_self))
    => LET expr == e_insn.expression
           p == Len(expr.parameters)
           kws == DOMAIN expr.kw_parameters
           k == Cardinality(kws)
           m == Len(e_insn.assignees)
           ids == e_self.arg_id_to_dtype[1].ids
           kw_to_pos == get_kw_pos_association(e_self.subkernel[1]).kw_to_pos
       IN /\ WellFormedCall(e_self, e_insn) => e_res.err = "none"
          /\ e_res.err = "none"
             => LET pars == e_res.val[1].parameters
                IN /\ Len(pars) = p + k + m
                   /\ \A i \in 1..p : pars[i].expr = expr.parameters[i]
                   /\ \A kw \in kws :
                         \E i \in (p + 1)..(p + k) :
                            pars[i].expr = expr.kw_parameters[kw]
                   /\ \A i, j \in (p + 1)..(p + k) :
                         i < j =>
                            \E kwi, kwj \in kws :
                               /\ pars[i].expr = expr.kw_parameters[kwi]
                               /\ pars[j].expr = expr.kw_parameters[kwj]
                               /\ kw_to_pos[kwi] < kw_to_pos[kwj]
                   /\ \A j \in 1..m :
                         pars[p + k + j].expr = e_insn.assignees[j]
                   /\ \A i \in 1..(p + k) : pars[i].dtype = ids[i - 1]
                   /\ \A j \in 1..m : pars[p + k + j].dtype = ids[-j]

\* a call with two keyword arguments and an assignee has been emitted
C8_Witness ==
    /\ epc = "returned"
    /\ e_self.subkernel # None
    /\ is_ready_for_code_gen(e_self)
    /\ e_res.err = "none"
    /\ Cardinality(DOMAIN e_insn.expression.kw_parameters) = 2
    /\ Len(e_insn.assignees) = 1
    /\ Len(e_res.val[1].parameters) = 3

(***************************************************************************)
(* Specification SpecPipeline: a program with two calls to sin, one with   *)
(* an integer and one with a float argument, through type specialization,  *)
(* shape specialization, the scoping pass and emit_call                    *)
(***************************************************************************)
IntDtypes == {"int32", "uint32"}
FloatDtypes == {"float32", "float64"}

IntCall == Call(sin, <<Variable("i")>>)
FloatCall == Call(sin, <<Variable("x")>>)

\* y = sin(i); z = sin(x)
PipelinePrograms ==
    {<<Instruction(cls[1], IntCall, <<Variable("y")>>),
       Instruction(cls[2], FloatCall, <<Variable("z")>>)>> :
        cls \in [1..2 -> {"Assignment", "CallInstruction"}]}

PipelineRegistries ==
    {registry \in RegistryPool :
        \A n \in DOMAIN registry : registry[n].subkernel = None}

InitPipeline ==
    /\ \E registry \in PipelineRegistries, instructions \in PipelinePrograms :
          knl = [scoped_functions |-> registry,
                 instructions |-> instructions]
    /\ p_target \in Targets
    /\ \E di \in IntDtypes, dx \in FloatDtypes :
          p_dtypes = [c \in {IntCall, FloatCall} |->
                         IF c = IntCall THEN di ELSE dx]
    /\ p_resolved = [c \in {IntCall, FloatCall} |->
                        Ok(InKernelCallable(c.function.name, None))]
    /\ p_emitted = EmptyFcn
    /\ calls_to_callables = <<>>
    /\ scoped_names_to_functions = <<>>
    /\ scoped_functions_to_names = <<>>
    /\ pymbolic_calls_to_new_names = <<>>
    /\ r_res = <<>>
    /\ rpc = "idle"
    /\ IdleName
    /\ IdleTypes
    /\ IdleDescr
    /\ IdleEmit

\* type specialization of the Callable a call is resolved to
SpecializeTypes ==
    /\ rpc = "idle"
    /\ \E c \in DOMAIN p_resolved :
          /\ p_resolved[c].err = "none"
          /\ p_resolved[c].val[1].arg_id_to_dtype = None
          /\ p_resolved' =
                [p_resolved EXCEPT
                    ![c] = with_types(
                               p_resolved[c].val[1],
                               IdDict([id \in {0} |-> NumpyType(p_dtypes[c])]),
                               p_target)]
    /\ UNCHANGED <<p_target, p_dtypes, p_emitted>>
    /\ UNCHANGED <<nameVars, typeVars, descrVars, passVars, emitVars>>

\* shape specialization of a type-specialized Callable
SpecializeDescrs ==
    /\ rpc = "idle"
    /\ \E c \in DOMAIN p_resolved :
          /\ p_resolved[c].err = "none"
          /\ p_resolved[c].val[1].arg_id_to_dtype # None
          /\ p_resolved[c].val[1].arg_id_to_descr = None
          /\ p_resolved' =
                [p_resolved EXCEPT
                    ![c] = with_descrs(
                               p_resolved[c].val[1],
                               <<[key |-> IdKey(0),
                                  descr |-> ValueArgDescriptor]>>)]
    /\ UNCHANGED <<p_target, p_dtypes, p_emitted>>
    /\ UNCHANGED <<nameVars, typeVars, descrVars, passVars, emitVars>>

\* the scoping pass is called with the Callables, once all are ready
StartPass ==
    /\ rpc = "idle"
    /\ \A c \in DOMAIN p_resolved :
          /\ p_resolved[c].err = "none"
          /\ is_ready_for_code_gen(p_resolved[c].val[1])
    /\ calls_to_callables' = [c \in DOMAIN p_resolved |-> p_resolved[c].val[1]]
    /\ scoped_names_to_functions' = knl.scoped_functions
    /\ scoped_functions_to_names' = EmptyFcn
    /\ pymbolic_calls_to_new_names' = EmptyFcn
    /\ rpc' = "loop"
    /\ UNCHANGED <<knl, r_res>>
    /\ UNCHANGED <<nameVars, typeVars, descrVars, emitVars, pipeVars>>

\* code generation of a call site of the kernel the pass returned
EmitSite ==
    /\ rpc = "done"
    /\ \E k \in (1..Len(r_res.val[1].instructions)) \ DOMAIN p_emitted :
          LET insn == r_res.val[1].instructions[k]
              callable == r_res.val[1].scoped_functions[
                              insn.expression.function.name]
          IN p_emitted' = [j \in DOMAIN p_emitted \cup {k} |->
                              IF j = k
                              THEN emit_call(callable, insn, p_target)
                              ELSE p_emitted[j]]
    /\ UNCHANGED <<p_target, p_dtypes, p_resolved>>
    /\ UNCHANGED <<nameVars, typeVars, descrVars, passVars, emitVars>>

NextPipeline ==
    \/ SpecializeTypes
    \/ SpecializeDescrs
    \/ StartPass
    \/ RegisterCall
    \/ RewriteInstructions
    \/ EmitSite

SpecPipeline == InitPipeline /\ [][NextPipeline]_vars

\* both call sites have been through code generation
PipelineDone ==
    /\ rpc = "done"
    /\ DOMAIN p_emitted = 1..Len(knl.instructions)

\* the two call sites were rewritten to two names with two registry entries
TwoEntries ==
    LET out == r_res.val[1]
        n1 == out.instructions[1].expression.function
        n2 == out.instructions[2].expression.function
    IN /\ n1.scoped /\ n2.scoped
       /\ n1.name # n2.name
       /\ out.scoped_functions[n1.name] # out.scoped_functions[n2.name]
       /\ knl.scoped_functions = EmptyFcn
          => {n1.name, n2.name} = {sin_0, sin_1}

\* emit_call returned for site k, under the generated name of the site and
\* with the dtypes of the specialization of the site
EmittedSite(k) ==
    LET out == r_res.val[1]
        insn == out.instructions[k]
        callable == calls_to_callables[knl.instructions[k].expression]
    IN /\ p_emitted[k].err = "none"
       /\ p_emitted[k].val[1].function = insn.expression.function.name
       /\ Len(p_emitted[k].val[1].parameters) = 2
       /\ p_emitted[k].val[1].parameters[1].dtype
             = callable.arg_id_to_dtype[1].ids[0]
       /\ p_emitted[k].val[1].parameters[2].dtype
             = callable.arg_id_to_dtype[1].ids[-1]

\* C9: end to end, the registry holds two distinct entries for the two
\* calls of sin, the call sites are rewritten to two distinct generated
\* names (sin_0 and sin_1), and emit_call on each call site returns a call
\* under the generated name of the site with each parameter in the dtype
\* context of the specialization of that call.
C9_EndToEnd ==
    PipelineDone => (TwoEntries /\ EmittedSite(1) /\ EmittedSite(2))

(***************************************************************************)
(* Specification SpecName: next_indexed_name applied to every identifier   *)
(* of at most MaxNameLen characters                                        *)
(***************************************************************************)
InitName ==
    /\ name_in \in NamesUpTo(MaxNameLen)
    /\ name_out = <<>>
    /\ npc = "call"
    /\ IdleTypes
    /\ IdleDescr
    /\ IdlePass
    /\ IdleEmit
    /\ IdlePipe

NextIndexedName ==
    /\ npc = "call"
    /\ name_out' = next_indexed_name(name_in)
    /\ npc' = "returned"
    /\ UNCHANGED name_in
    /\ UNCHANGED <<typeVars, descrVars, passVars, emitVars, pipeVars>>

NextName == NextIndexedName

SpecName == InitName /\ [][NextName]_vars

\* C6 -- the name has the form <alpha>_<digits> at the separator in place i:
\* a non-empty alpha before it and only digits, at least one, after it
HasIndexedForm(name, i) ==
    /\ 1 < i
    /\ i < Len(name)
    /\ name[i] = "_"
    /\ \A j \in (i + 1)..Len(name) : IsDigit(name[j])

\* the decimal numeral s is written without leading zeros
IsCanonicalNumeral(s) ==
    /\ Len(s) >= 1
    /\ \A j \in 1..Len(s) : IsDigit(s[j])
    /\ (Len(s) > 1 => s[1] # "0")

\* C6: next_indexed_name follows the next-indexed-name rule for every
\* non-empty name: a name <alpha>_<digits> gives <alpha>_<digits + 1>
\* (same alpha, a numeral whose value is one more); otherwise a name ending
\* in the separator gets "0" appended; otherwise the name gets "_0" appended.
C6_NextIndexedNameRule ==
    npc = "returned" =>
        IF \E i \in 1..Len(name_in) : HasIndexedForm(name_in, i)
        THEN \E i \in 1..Len(name_in) :
                /\ HasIndexedForm(name_in, i)
                /\ Len(name_out) > i
                /\ SubSeq(name_out, 1, i) = SubSeq(name_in, 1, i)
                /\ IsCanonicalNumeral(SubSeq(name_out, i + 1, Len(name_out)))
                /\ int(SubSeq(name_out, i + 1, Len(name_out)))
                     = int(SubSeq(name_in, i + 1, Len(name_in))) + 1
        ELSE IF name_in[Len(name_in)] = "_"
             THEN name_out = name_in \o <<"0">>
             ELSE name_out = name_in \o <<"_", "0">>

\* an indexed name whose number carries into one more digit (f_9 -> f_10)
\* has been renamed
C6_Witness ==
    /\ npc = "returned"
    /\ name_in = <<"f", "_", "9">>
    /\ name_out = <<"f", "_", "1", "0">>

====
